---- MODULE Spec2Model ----
(***************************************************************************)
(* A model of quokka's Program (bindings/python/quokka/program.py): the    *)
(* constructor that turns an export into the chunk index, the address map  *)
(* and the name index, the lazily computed views (call graph, reverse      *)
(* chunk index), the query methods, and the from_binary helper.            *)
(*                                                                         *)
(* Python dicts are modelled as sequences of <<key, value>> pairs in       *)
(* insertion order.  A Function object is identified by its position in    *)
(* proto.functions, a Chunk object by (proto_index, block_index).          *)
(***************************************************************************)
EXTENDS Integers, Sequences, FiniteSets, TLC

\* ---------------------------------------------------------------- bounds
MaxChunks == 2      \* chunk records in an export
MaxBlocks == 2      \* constituent chunks of one SuperChunk
MaxFuncs == 3       \* function records in an export
MaxStart == 1       \* function / chunk start addresses are 0..MaxStart
MaxAddr == 2        \* addresses (call targets, queried addresses) are 0..MaxAddr

Addr == 0..MaxAddr
Starts == 0..MaxStart

\* quokka.types.FunctionType
FunctionType == {"NORMAL", "IMPORTED", "LIBRARY", "THUNK", "EXTERN", "INVALID"}

\* Function names are sequences of characters, so that "name in function.name"
\* (substring containment) is computed and not assumed.
ProtoNames == {<<"f">>, <<"f", "b">>}
QueryNames == ProtoNames \cup {<<"b">>, <<"g">>}

\* block_index of a Chunk that is no SuperChunk constituent, and the None of
\* get_chunk's block_index
NoBlock == -1

\* ---------------------------------------------------------- python dicts
DictHas(d, k) == \E i \in 1..Len(d) : d[i][1] = k

DictGet(d, k) == d[CHOOSE i \in 1..Len(d) : d[i][1] = k][2]

\* d[k] = v : a new key is appended, an existing key keeps its position
DictSet(d, k, v) ==
    IF DictHas(d, k)
    THEN [i \in 1..Len(d) |-> IF d[i][1] = k THEN <<k, v>> ELSE d[i]]
    ELSE Append(d, <<k, v>>)

\* "a in b" on strings
IsSubstring(a, b) ==
    \E i \in 0..(Len(b) - Len(a)) : SubSeq(b, i + 1, i + Len(a)) = a

\* --------------------------------------------------------------- exports
\* One Chunk object.  start/end is its address range, calls its recorded call
\* targets, heads the addresses of its instructions.
MkChunk(idx, blk, part) ==
    [proto_index |-> idx, block_index |-> blk, start |-> part.start,
     end |-> part.end, calls |-> part.calls, heads |-> part.heads,
     chunk_type |-> part.chunk_type]

PlainPart(s) ==
    [start |-> s, end |-> s + 1, calls |-> {}, heads |-> {s}, chunk_type |-> "NORMAL"]

\* A raw chunk record: the fake flag and the logical chunks it holds (one when
\* the record is not fake).
PlainRecord(s) == [fake |-> FALSE, parts |-> <<PlainPart(s)>>]

\* all sequences over S of length 0..n
SeqsUpTo(S, n) == UNION {[1..m -> S] : m \in 0..n}

NoProto == [function_chunks |-> <<>>, functions |-> <<>>]

VARIABLES
    pc,                 \* position in Program.__init__: "new", "hash", "chunks",
                        \* "functions", "ready", "raised"
    proto,              \* self.proto: the parsed export
    chunks,             \* self.chunks: chunk_index -> Chunk | SuperChunk
    self_map,           \* the Program as a dict: start -> Function
    fun_names,          \* self.fun_names: name -> Function
    call_graph,         \* cached_property call_graph
    func_chunk_index,   \* cached_property func_chunk_index
    result,             \* what the last call returned or raised
    fb                  \* the state of one from_binary call

vars == <<pc, proto, chunks, self_map, fun_names, call_graph, func_chunk_index,
          result, fb>>

NotComputed == [computed |-> FALSE]
NoResult == [op |-> "none"]
NoFb == [stage |-> "idle"]

Init ==
    /\ pc = "new"
    /\ proto = NoProto
    /\ chunks = <<>>
    /\ self_map = <<>>
    /\ fun_names = <<>>
    /\ call_graph = NotComputed
    /\ func_chunk_index = NotComputed
    /\ result = NoResult
    /\ fb = NoFb

\* ----------------------------------------------------- Program.__init__
\* The order of the constructor's stages.
StepAfter_HashLast(p) ==
    CASE p = "new" -> "chunks"
      [] p = "chunks" -> "functions"
      [] p = "functions" -> "hash"
      [] p = "hash" -> "ready"

StepAfter(p) ==
    CASE p = "new" -> "hash"
      [] p = "hash" -> "chunks"
      [] p = "chunks" -> "functions"
      [] p = "functions" -> "ready"

\* lines 95-118: read and parse the export file (a malformed file raises),
\* then the version check, which only logs.  parse_version is not imported in
\* program.py; it is taken to resolve to the package's helper.
Parse(exports) ==
    /\ pc = "new"
    /\ \/ /\ \E p \in exports : proto' = p
          /\ pc' = StepAfter("new")
          /\ result' = NoResult
       \/ /\ proto' = proto
          /\ pc' = "raised"
          /\ result' = [op |-> "__init__", kind |-> "raise", value |-> "DecodeError"]
    /\ UNCHANGED <<chunks, self_map, fun_names, call_graph, func_chunk_index, fb>>

\* lines 120-123: quokka.check_hash(proto.meta.hash, exec_path)
CheckHash ==
    /\ pc = "hash"
    /\ \E hash_matches \in BOOLEAN :
        IF hash_matches
        THEN /\ pc' = StepAfter("hash")
             /\ result' = result
        ELSE /\ pc' = "raised"
             /\ result' = [op |-> "__init__", kind |-> "raise", value |-> "QuokkaError"]
    /\ UNCHANGED <<proto, chunks, self_map, fun_names, call_graph, func_chunk_index, fb>>

\* quokka.analysis.split_chunk: a fake chunk becomes a SuperChunk of its
\* constituents, each addressed by (chunk_index, block_index).
split_chunk(idx, rec) ==
    [kind |-> "SuperChunk", proto_idx |-> idx,
     parts |-> [b \in 1..Len(rec.parts) |-> MkChunk(idx, b - 1, rec.parts[b])]]

\* lines 146-149: the entry stored for one raw record
ChunkEntry(idx, rec) ==
    IF rec.fake
    THEN split_chunk(idx, rec)
    ELSE [kind |-> "Chunk", proto_idx |-> idx,
          parts |-> <<MkChunk(idx, NoBlock, rec.parts[1])>>]

\* lines 138-151: self.chunks[chunk_index] = chunk, for every record in order.
\* chunks[i] is the entry of chunk_index i - 1.
BuildChunks ==
    /\ pc = "chunks"
    /\ chunks' = [i \in 1..Len(proto.function_chunks) |->
                    ChunkEntry(i - 1, proto.function_chunks[i])]
    /\ pc' = StepAfter("chunks")
    /\ UNCHANGED <<proto, self_map, fun_names, call_graph, func_chunk_index, result, fb>>

\* line 161: function.type == self.fun_names[function.name] compares a
\* FunctionType member with a Function object; the two are never equal
TypeEqualsFunction(type, f) == FALSE

\* a name index that never replaces an entry
FunNamesInsert_FirstWins(names, f) ==
    LET fn == proto.functions[f]
    IN  IF ~DictHas(names, fn.name)
        THEN DictSet(names, fn.name, f)
        ELSE names

\* lines 158-165: function f (its position in proto.functions) meets the name
\* index
FunNamesInsert(names, f) ==
    LET fn == proto.functions[f]
    IN  IF ~DictHas(names, fn.name)
        THEN DictSet(names, fn.name, f)
        ELSE IF TypeEqualsFunction(fn.type, DictGet(names, fn.name))
             THEN names
             ELSE IF fn.type = "NORMAL"
                  THEN DictSet(names, fn.name, f)
                  ELSE names

RECURSIVE FunNamesAfter(_)
\* the name index after the first n function records
FunNamesAfter(n) ==
    IF n = 0 THEN <<>> ELSE FunNamesInsert(FunNamesAfter(n - 1), n)

RECURSIVE SelfAfter(_)
\* line 157: self[function.start] = function, for the first n records
SelfAfter(n) ==
    IF n = 0 THEN <<>>
    ELSE DictSet(SelfAfter(n - 1), proto.functions[n].start, n)

\* lines 153-165
BuildFunctions ==
    /\ pc = "functions"
    /\ self_map' = SelfAfter(Len(proto.functions))
    /\ fun_names' = FunNamesAfter(Len(proto.functions))
    /\ pc' = StepAfter("functions")
    /\ UNCHANGED <<proto, chunks, call_graph, func_chunk_index, result, fb>>

\* ---------------------------------------------------------- get_function
\* lines 293-300: the first entry of fun_names, from position i on, whose
\* name contains `name` (and is NORMAL when asked); 0 when there is none
RECURSIVE FirstMatch(_, _, _)
FirstMatch(i, name, normal) ==
    IF i > Len(fun_names) THEN 0
    ELSE LET fn == proto.functions[fun_names[i][2]]
         IN  IF IsSubstring(name, fn.name) /\ (~normal \/ fn.type = "NORMAL")
             THEN i
             ELSE FirstMatch(i + 1, name, normal)

\* lines 271-300
get_function(name, approximative, normal) ==
    IF ~approximative
    THEN IF DictHas(fun_names, name)
         THEN [kind |-> "return", value |-> DictGet(fun_names, name)]
         ELSE [kind |-> "raise", value |-> "ValueError"]
    ELSE LET i == FirstMatch(1, name, normal)
         IN  IF i = 0
             THEN [kind |-> "raise", value |-> "ValueError"]
             ELSE [kind |-> "return", value |-> DictGet(fun_names, fun_names[i][1])]

GetFunction ==
    /\ pc = "ready"
    /\ \E name \in QueryNames, approximative \in BOOLEAN, normal \in BOOLEAN :
        LET r == get_function(name, approximative, normal)
        IN  result' = [op |-> "get_function", name |-> name,
                       approximative |-> approximative, normal |-> normal,
                       kind |-> r.kind, value |-> r.value]
    /\ UNCHANGED <<pc, proto, chunks, self_map, fun_names, call_graph,
                   func_chunk_index, fb>>

\* ------------------------------------------------------ func_chunk_index
\* lines 333-338: a defaultdict(list), chunk_proto_index -> the functions of
\* self.values() that hold the chunk, in that order
ComputeFuncChunkIndex ==
    LET funcs == [i \in 1..Len(self_map) |-> self_map[i][2]]
        keys == UNION {proto.functions[funcs[i]].index_to_address : i \in 1..Len(funcs)}
        Holds(k) == LET Has(f) == k \in proto.functions[f].index_to_address
                    IN  SelectSeq(funcs, Has)
    IN  [k \in keys |-> Holds(k)]

\* the cached_property: computed on first access, then the stored object
FuncChunkIndexValue ==
    IF func_chunk_index.computed THEN func_chunk_index.index ELSE ComputeFuncChunkIndex

\* reading the property
AccessFuncChunkIndex ==
    /\ pc = "ready"
    /\ func_chunk_index' = [computed |-> TRUE, index |-> FuncChunkIndexValue]
    /\ result' = [op |-> "func_chunk_index"]
    /\ UNCHANGED <<pc, proto, chunks, self_map, fun_names, call_graph, fb>>

\* line 353: index[key] on a defaultdict(list): a missing key is inserted
\* with an empty list, which is returned
Subscript(index, key) ==
    IF key \in DOMAIN index
    THEN [functions |-> index[key], index |-> index]
    ELSE [functions |-> <<>>,
          index |-> [k \in DOMAIN index \cup {key} |->
                        IF k = key THEN <<>> ELSE index[k]]]

\* lines 353-360
get_function_by_chunk(chunk) ==
    LET got == Subscript(FuncChunkIndexValue, chunk.proto_index)
    IN  [index |-> got.index,
         kind |-> IF got.functions = <<>> THEN "raise" ELSE "return",
         value |-> IF got.functions = <<>> THEN "IndexError" ELSE got.functions]

\* lines 376-379
get_first_function_by_chunk(chunk) ==
    LET r == get_function_by_chunk(chunk)
    IN  [index |-> r.index,
         kind |-> r.kind,
         value |-> IF r.kind = "raise" THEN "FunctionMissingError" ELSE r.value[1]]

\* the Chunk objects of the program
ProgramChunks ==
    UNION {{chunks[i].parts[b] : b \in 1..Len(chunks[i].parts)} : i \in 1..Len(chunks)}

GetFunctionByChunk ==
    /\ pc = "ready"
    /\ \E chunk \in ProgramChunks :
        LET r == get_function_by_chunk(chunk)
        IN  /\ func_chunk_index' = [computed |-> TRUE, index |-> r.index]
            /\ result' = [op |-> "get_function_by_chunk", chunk |-> chunk,
                          kind |-> r.kind, value |-> r.value]
    /\ UNCHANGED <<pc, proto, chunks, self_map, fun_names, call_graph, fb>>

GetFirstFunctionByChunk ==
    /\ pc = "ready"
    /\ \E chunk \in ProgramChunks :
        LET r == get_first_function_by_chunk(chunk)
        IN  /\ func_chunk_index' = [computed |-> TRUE, index |-> r.index]
            /\ result' = [op |-> "get_first_function_by_chunk", chunk |-> chunk,
                          kind |-> r.kind, value |-> r.value]
    /\ UNCHANGED <<pc, proto, chunks, self_map, fun_names, call_graph, fb>>

\* -------------------------------------------------------------- get_chunk
\* SuperChunk.get_chunk_by_index: the constituent addressed by block_index
get_chunk_by_index(entry, chunk_index, block_index) ==
    IF block_index \in 0..(Len(entry.parts) - 1)
    THEN [kind |-> "return", value |-> entry.parts[block_index + 1]]
    ELSE [kind |-> "raise", value |-> "ChunkMissingError"]

\* get_chunk without the SuperChunk test of lines 403-407
get_chunk_FirstOfSuperChunk(chunk_index, block_index) ==
    IF chunk_index \in 0..(Len(chunks) - 1)
    THEN [kind |-> "return", value |-> chunks[chunk_index + 1].parts[1]]
    ELSE [kind |-> "raise", value |-> "ChunkMissingError"]

\* lines 399-411; block_index None is NoBlock
get_chunk(chunk_index, block_index) ==
    IF chunk_index \in 0..(Len(chunks) - 1)
    THEN LET chunk == chunks[chunk_index + 1]
         IN  IF chunk.kind = "Chunk"
             THEN [kind |-> "return", value |-> chunk.parts[1]]
             ELSE IF block_index = NoBlock
                  THEN [kind |-> "raise", value |-> "ChunkMissingError"]
                  ELSE get_chunk_by_index(chunk, chunk_index, block_index)
    ELSE [kind |-> "raise", value |-> "ChunkMissingError"]

GetChunk ==
    /\ pc = "ready"
    /\ \E chunk_index \in -1..MaxChunks, block_index \in {NoBlock} \cup 0..MaxBlocks :
        LET r == get_chunk(chunk_index, block_index)
        IN  result' = [op |-> "get_chunk", chunk_index |-> chunk_index,
                       block_index |-> block_index, kind |-> r.kind, value |-> r.value]
    /\ UNCHANGED <<pc, proto, chunks, self_map, fun_names, call_graph,
                   func_chunk_index, fb>>

\* ------------------------------------------------------------- iter_chunk
\* SuperChunk.values(): the constituent chunks, in block order
SuperChunkValues(entry) == entry.parts

\* lines 433-441 for the entries from position i on
RECURSIVE IterFrom(_, _)
IterFrom(i, chunk_types) ==
    IF i > Len(chunks) THEN <<>>
    ELSE LET chunk == chunks[i]
             Allowed(c) == c.chunk_type \in chunk_types
         IN  (IF chunk.kind = "SuperChunk"
              THEN SelectSeq(SuperChunkValues(chunk), Allowed)
              ELSE IF Allowed(chunk.parts[1]) THEN <<chunk.parts[1]>> ELSE <<>>)
             \o IterFrom(i + 1, chunk_types)

\* iter_chunk that yields only the first constituent of a SuperChunk
iter_chunk_FirstConstituent(chunk_types) ==
    LET types == IF chunk_types.given THEN chunk_types.types ELSE FunctionType
        Allowed(c) == c.chunk_type \in types
        firsts == [i \in 1..Len(chunks) |-> chunks[i].parts[1]]
    IN  SelectSeq(firsts, Allowed)

\* lines 429-441: the chunks yielded, in order.  chunk_types None is
\* [given |-> FALSE].
iter_chunk(chunk_types) ==
    IterFrom(1, IF chunk_types.given THEN chunk_types.types ELSE FunctionType)

IterChunk ==
    /\ pc = "ready"
    /\ \E chunk_types \in {[given |-> FALSE, types |-> {}]}
                          \cup [given : {TRUE}, types : SUBSET {"NORMAL", "EXTERN"}] :
        result' = [op |-> "iter_chunk", chunk_types |-> chunk_types,
                   kind |-> "return", value |-> iter_chunk(chunk_types)]
    /\ UNCHANGED <<pc, proto, chunks, self_map, fun_names, call_graph,
                   func_chunk_index, fb>>

\* ------------------------------------------------------------- call_graph
\* A node of the DiGraph is whatever object was added: an address, or a
\* Chunk object (which is no address and equals none).
AddrNode(a) == [kind |-> "address", address |-> a, proto_index |-> -1, block_index |-> -1]

ChunkNode(c) ==
    [kind |-> "Chunk", address |-> -1, proto_index |-> c.proto_index,
     block_index |-> c.block_index]

\* SuperChunk.starts.values(): the constituent chunks, by start address
SuperChunkStarts(entry) == {entry.parts[b] : b \in 1..Len(entry.parts)}

\* lines 199-200 with the add_node of line 199 left out
EntryGraph_NoAddNode(chunk) ==
    IF chunk.kind = "Chunk"
    THEN [nodes |-> {},
          edges |-> {<<AddrNode(chunk.parts[1].start), AddrNode(t)>> :
                        t \in chunk.parts[1].calls}]
    ELSE [nodes |-> {},
          edges |-> UNION {{<<ChunkNode(small_chunk), AddrNode(t)>> :
                                t \in small_chunk.calls} :
                            small_chunk \in SuperChunkStarts(chunk)}]

\* lines 198-205: the nodes and edges one entry of self.chunks adds
EntryGraph(chunk) ==
    IF chunk.kind = "Chunk"
    THEN [nodes |-> {AddrNode(chunk.parts[1].start)},
          edges |-> {<<AddrNode(chunk.parts[1].start), AddrNode(t)>> :
                        t \in chunk.parts[1].calls}]
    ELSE [nodes |-> {},
          edges |-> UNION {{<<ChunkNode(small_chunk), AddrNode(t)>> :
                                t \in small_chunk.calls} :
                            small_chunk \in SuperChunkStarts(chunk)}]

\* lines 194-207: a DiGraph holds each node and each edge once, and
\* add_edges_from adds the endpoints of every edge as nodes
ComputeCallGraph ==
    LET edges == UNION {EntryGraph(chunks[i]).edges : i \in 1..Len(chunks)}
        nodes == UNION {EntryGraph(chunks[i]).nodes : i \in 1..Len(chunks)}
    IN  [computed |-> TRUE,
         nodes |-> nodes \cup {e[1] : e \in edges} \cup {e[2] : e \in edges},
         edges |-> edges]

\* reading the cached_property
AccessCallGraph ==
    /\ pc = "ready"
    /\ call_graph' = IF call_graph.computed THEN call_graph ELSE ComputeCallGraph
    /\ result' = [op |-> "call_graph"]
    /\ UNCHANGED <<pc, proto, chunks, self_map, fun_names, func_chunk_index, fb>>

\* -------------------------------------------------------- get_instruction
\* Chunk.in_chunk / SuperChunk.in_chunk: the address lies in the range
in_chunk(entry, address) ==
    \E b \in 1..Len(entry.parts) :
        entry.parts[b].start <= address /\ address < entry.parts[b].end

\* Chunk.get_instruction / SuperChunk.get_instruction: the instruction whose
\* head is at the address, IndexError when there is none
chunk_get_instruction(entry, address) ==
    IF \E b \in 1..Len(entry.parts) : address \in entry.parts[b].heads
    THEN LET b == CHOOSE b \in 1..Len(entry.parts) : address \in entry.parts[b].heads
         IN  [kind |-> "return",
              value |-> [address |-> address, chunk |-> entry.parts[b]]]
    ELSE [kind |-> "raise", value |-> "IndexError"]

\* lines 262-269 without the try/except: the first containing chunk decides
RECURSIVE ScanFrom_NoExcept(_, _)
ScanFrom_NoExcept(i, address) ==
    IF i > Len(chunks) THEN [kind |-> "raise", value |-> "IndexError"]
    ELSE IF in_chunk(chunks[i], address)
         THEN chunk_get_instruction(chunks[i], address)
         ELSE ScanFrom_NoExcept(i + 1, address)

get_instruction_NoExcept(address) == ScanFrom_NoExcept(1, address)

\* lines 262-269 for the entries from position i on
RECURSIVE ScanFrom(_, _)
ScanFrom(i, address) ==
    IF i > Len(chunks) THEN [kind |-> "raise", value |-> "IndexError"]
    ELSE IF in_chunk(chunks[i], address)
         THEN LET r == chunk_get_instruction(chunks[i], address)
              IN  IF r.kind = "return" THEN r ELSE ScanFrom(i + 1, address)
         ELSE ScanFrom(i + 1, address)

\* lines 246-269
get_instruction(address) == ScanFrom(1, address)

GetInstruction ==
    /\ pc = "ready"
    /\ \E address \in 0..(MaxAddr + 1) :
        LET r == get_instruction(address)
        IN  result' = [op |-> "get_instruction", address |-> address,
                       kind |-> r.kind, value |-> r.value]
    /\ UNCHANGED <<pc, proto, chunks, self_map, fun_names, call_graph,
                   func_chunk_index, fb>>

\* ------------------------------------------------------------ from_binary
\* What one call meets: whether exec_path, output_file and database_file are
\* files, whether HOME is set, how the exporter run ends ("missing": the
\* exporter cannot be started, "failed": non-zero exit code, "timeout": it
\* exceeds the timeout, "exited": exit code 0), whether it wrote output_file,
\* and how Program(output_file, exec_path) ends.
FromBinaryInputs ==
    [stage : {"called"},
     exec_is_file : BOOLEAN, output_is_file : BOOLEAN, database_is_file : BOOLEAN,
     home_set : BOOLEAN, exporter : {"missing", "failed", "timeout", "exited"},
     produced : BOOLEAN, load : {"Program", "QuokkaError", "DecodeError"}]

\* lines 499 and 548: Program(output_file, exec_path)
LoadProgram(in) ==
    IF in.load = "Program"
    THEN [kind |-> "return", value |-> "Program"]
    ELSE [kind |-> "raise", value |-> in.load]

\* lines 501-523: the exporter's command line
Command(in) ==
    <<"idat64", "-OQuokkaAuto:true", "-OQuokkaFile:output_file">>
    \o (IF ~in.database_is_file THEN <<"-odatabase_file">> ELSE <<>>)
    \o <<"-A", IF in.database_is_file THEN "database_file" ELSE "exec_path">>

\* lines 489-548.  subprocess.run(check=True, timeout=timeout) raises
\* CalledProcessError on a non-zero exit code and TimeoutExpired on a
\* timeout; line 542 catches the first only.
from_binary(in) ==
    IF ~in.exec_is_file THEN [kind |-> "raise", value |-> "FileNotFoundError"]
    ELSE IF in.output_is_file THEN LoadProgram(in)
    ELSE IF ~in.home_set THEN [kind |-> "raise", value |-> "KeyError"]
    ELSE IF in.exporter = "missing" THEN [kind |-> "raise", value |-> "FileNotFoundError"]
    ELSE IF in.exporter = "failed" THEN [kind |-> "return", value |-> "None"]
    ELSE IF in.exporter = "timeout" THEN [kind |-> "raise", value |-> "TimeoutExpired"]
    ELSE IF ~in.produced THEN [kind |-> "return", value |-> "None"]
    ELSE LoadProgram(in)

\* whether the call gets as far as running the exporter
RunsExporter(in) == in.exec_is_file /\ ~in.output_is_file /\ in.home_set

FromBinary ==
    /\ fb.stage = "called"
    /\ LET r == from_binary(fb)
       IN  /\ fb' = [fb EXCEPT !.stage = "done"]
           /\ result' = [op |-> "from_binary", kind |-> r.kind, value |-> r.value,
                         cmd |-> IF RunsExporter(fb) THEN Command(fb) ELSE <<>>]
    /\ UNCHANGED <<pc, proto, chunks, self_map, fun_names, call_graph, func_chunk_index>>

\* ------------------------------------------------------------ the exports
FuncRecords(names, types, idxs) ==
    [start : Starts, name : names, type : types, index_to_address : idxs]

PlainChunks(n) == [i \in 1..n |-> PlainRecord(i - 1)]

\* exports whose functions differ in start, name and type
FunctionExports ==
    [function_chunks : {PlainChunks(MaxChunks)},
     functions : SeqsUpTo(FuncRecords(ProtoNames, {"NORMAL", "THUNK"}, {{0}}), MaxFuncs)]

\* exports whose functions differ in start and in the chunks they hold
IndexExports ==
    UNION {[function_chunks : {PlainChunks(n)},
            functions : SeqsUpTo(FuncRecords({<<"f">>}, {"NORMAL"},
                                             SUBSET (0..(n - 1)) \ {{}}), MaxFuncs)]
           : n \in 1..MaxChunks}

\* The constituents of a fake record: up to MaxBlocks parts, in ascending
\* address order, their ranges pairwise disjoint.
FakeParts(parts) ==
    UNION {{ps \in [1..k -> parts] :
                \A b \in 1..(k - 1) : ps[b].end <= ps[b + 1].start}
           : k \in 1..MaxBlocks}

\* the raw chunk records: ordinary ones over a set of parts, fake ones over
\* a set of part sequences
OrdinaryRecords(parts) == {[fake |-> FALSE, parts |-> <<p>>] : p \in parts}

FakeRecords(partSeqs) == {[fake |-> TRUE, parts |-> ps] : ps \in partSeqs}

\* the chunk sequences with one SuperChunk, alone or beside one ordinary chunk
WithOneSuperChunk(ordinary, fake) ==
    {<<f>> : f \in fake}
    \cup {<<f, o>> : f \in fake, o \in ordinary}
    \cup {<<o, f>> : o \in ordinary, f \in fake}

ChunkOnlyExports(chunkSeqs) == [function_chunks : chunkSeqs, functions : {<<>>}]

\* chunks that differ in type and in how they are split: any sequence of up
\* to MaxChunks records, each ordinary or fake with up to MaxBlocks
\* constituents
TypedParts ==
    {[start |-> s, end |-> s + 1, calls |-> {}, heads |-> {s}, chunk_type |-> t] :
        s \in 0..(MaxBlocks - 1), t \in {"NORMAL", "EXTERN"}}

TypedExports ==
    ChunkOnlyExports(SeqsUpTo(
        OrdinaryRecords({p \in TypedParts : p.start = 0})
        \cup FakeRecords({ps \in FakeParts(TypedParts) :
                            \A b \in 1..Len(ps) : ps[b].start = b - 1}),
        MaxChunks))

\* chunks that differ in start and in the addresses they call: up to
\* MaxChunks ordinary chunks, or one SuperChunk (each constituent calling at
\* most one address) alone or beside an ordinary chunk
GraphParts ==
    {[start |-> s, end |-> s + 1, calls |-> c, heads |-> {s}, chunk_type |-> "NORMAL"] :
        s \in Starts, c \in SUBSET Addr}

GraphExports ==
    ChunkOnlyExports(
        SeqsUpTo(OrdinaryRecords(GraphParts), MaxChunks)
        \cup WithOneSuperChunk(
                OrdinaryRecords(GraphParts),
                FakeRecords(FakeParts({p \in GraphParts : Cardinality(p.calls) <= 1}))))

\* chunks that differ in range and in where their instructions start (the
\* first at the chunk's start): up to MaxChunks ordinary chunks, or one
\* SuperChunk alone or beside an ordinary chunk
InstrParts ==
    UNION {UNION {{[start |-> s, end |-> e, calls |-> {}, heads |-> h \cup {s},
                     chunk_type |-> "NORMAL"] : h \in SUBSET ((s + 1)..(e - 1))}
                  : e \in (s + 1)..(MaxAddr + 1)}
           : s \in Addr}

InstrExports ==
    ChunkOnlyExports(
        SeqsUpTo(OrdinaryRecords(InstrParts), MaxChunks)
        \cup WithOneSuperChunk(OrdinaryRecords(InstrParts),
                               FakeRecords(FakeParts(InstrParts))))

\* ------------------------------------------------------- specifications
Construct ==
    \/ CheckHash
    \/ BuildChunks
    \/ BuildFunctions

\* construction and lookup by name
Next ==
    \/ Parse(FunctionExports)
    \/ Construct
    \/ GetFunction

Spec == Init /\ [][Next]_vars

\* construction and the reverse chunk index
NextIndex ==
    \/ Parse(IndexExports)
    \/ Construct
    \/ AccessFuncChunkIndex
    \/ GetFunctionByChunk
    \/ GetFirstFunctionByChunk

SpecIndex == Init /\ [][NextIndex]_vars

\* construction and chunk resolution
NextChunks ==
    \/ Parse(TypedExports)
    \/ Construct
    \/ GetChunk
    \/ IterChunk

SpecChunks == Init /\ [][NextChunks]_vars

\* construction and the call graph
NextGraph ==
    \/ Parse(GraphExports)
    \/ Construct
    \/ AccessCallGraph

SpecGraph == Init /\ [][NextGraph]_vars

\* construction and instruction lookup
NextInstr ==
    \/ Parse(InstrExports)
    \/ Construct
    \/ GetInstruction

SpecInstr == Init /\ [][NextInstr]_vars

\* one call of from_binary, in every situation it can meet
InitBinary ==
    /\ pc = "new"
    /\ proto = NoProto
    /\ chunks = <<>>
    /\ self_map = <<>>
    /\ fun_names = <<>>
    /\ call_graph = NotComputed
    /\ func_chunk_index = NotComputed
    /\ result = NoResult
    /\ fb \in FromBinaryInputs

NextBinary == FromBinary

SpecBinary == InitBinary /\ [][NextBinary]_vars

\* ------------------------------------------------------------ name index
\* the collision policy of the name index, applied to one more function
PolicyInsert(names, f) ==
    LET fn == proto.functions[f]
    IN  IF ~DictHas(names, fn.name)
        THEN DictSet(names, fn.name, f)
        ELSE IF fn.type = "NORMAL"
                /\ proto.functions[DictGet(names, fn.name)].type # "NORMAL"
             THEN DictSet(names, fn.name, f)
             ELSE names

RECURSIVE PolicyAfter(_)
PolicyAfter(n) ==
    IF n = 0 THEN <<>> ELSE PolicyInsert(PolicyAfter(n - 1), n)

\* C2: after construction the name index holds one Function per name, the
\* one the collision policy selects when applied in record order (keep the
\* existing entry unless the new function is NORMAL and the existing one is
\* not); two same-typed functions of one name leave the first in the index.
C2_NameIndexFollowsPolicy ==
    pc = "ready" =>
        /\ \A i, j \in 1..Len(fun_names) :
                fun_names[i][1] = fun_names[j][1] => i = j
        /\ fun_names = PolicyAfter(Len(proto.functions))

\* exactly two functions, of one name, one NORMAL and one not
TwoHelpers ==
    /\ Len(proto.functions) = 2
    /\ proto.functions[1].name = proto.functions[2].name
    /\ (proto.functions[1].type = "NORMAL") # (proto.functions[2].type = "NORMAL")

\* C3: with exactly two functions of one name, one NORMAL and one not,
\* get_function(name, approximative=False) returns the NORMAL one, whichever
\* was declared first.
C3_ExactLookupReturnsNormal ==
    (/\ pc = "ready"
     /\ TwoHelpers
     /\ result.op = "get_function"
     /\ ~result.approximative
     /\ result.name = proto.functions[1].name)
        => /\ result.kind = "return"
           /\ proto.functions[result.value].type = "NORMAL"

\* the NORMAL function is declared second and is the one returned
C3_Witness ==
    /\ pc = "ready"
    /\ TwoHelpers
    /\ proto.functions[2].type = "NORMAL"
    /\ result.op = "get_function"
    /\ ~result.approximative
    /\ result.name = proto.functions[1].name
    /\ result.kind = "return"
    /\ result.value = 2

\* C4: when the hash check fails, construction raises and nothing has been
\* added to the chunk index, the address map or the name index.
C4_HashMismatchBuildsNothing ==
    (pc = "raised" /\ result.value = "QuokkaError")
        => /\ chunks = <<>>
           /\ self_map = <<>>
           /\ fun_names = <<>>
           /\ result.kind = "raise"

\* a mismatching hash on an export that has chunks and functions
C4_Witness ==
    /\ pc = "raised"
    /\ result.value = "QuokkaError"
    /\ Len(proto.function_chunks) > 0
    /\ Len(proto.functions) > 0

\* ------------------------------------------------------------ from_binary
\* C1: with the executable present and no export file yet, from_binary
\* returns None and does not raise when the exporter exits with a failure
\* code, exceeds the timeout, or ends without writing the output file.
C1_ExporterFailureReturnsNone ==
    (/\ fb.stage = "done"
     /\ fb.exec_is_file
     /\ ~fb.output_is_file
     /\ fb.home_set
     /\ \/ fb.exporter \in {"failed", "timeout"}
        \/ fb.exporter = "exited" /\ ~fb.produced)
        => result.kind = "return" /\ result.value = "None"

\* ------------------------------------------------------------ chunk index
NoDuplicates(seq) == \A i, j \in 1..Len(seq) : seq[i] = seq[j] => i = j

Range(seq) == {seq[i] : i \in 1..Len(seq)}

\* every (chunk_index, block_index) that addresses a chunk
ChunkKeys ==
    UNION {IF chunks[i].kind = "Chunk"
           THEN {<<i - 1, NoBlock>>}
           ELSE {<<i - 1, b>> : b \in 0..(Len(chunks[i].parts) - 1)}
           : i \in 1..Len(chunks)}

\* C5: iter_chunk(None) yields every ordinary Chunk and every constituent of
\* every SuperChunk exactly once, and the chunks it yields are the ones
\* get_chunk returns over every chunk_index and every block_index.
C5_IterChunkVisitsEachOnce ==
    (pc = "ready" /\ result.op = "iter_chunk" /\ ~result.chunk_types.given)
        => /\ NoDuplicates(result.value)
           /\ Range(result.value) = ProgramChunks
           /\ Len(result.value) = Cardinality(ChunkKeys)
           /\ Range(result.value) = {get_chunk(k[1], k[2]).value : k \in ChunkKeys}

\* an ordinary Chunk and a SuperChunk of two constituents, all three yielded
C5_Witness ==
    /\ pc = "ready"
    /\ result.op = "iter_chunk"
    /\ ~result.chunk_types.given
    /\ Len(chunks) = 2
    /\ chunks[1].kind = "SuperChunk"
    /\ Len(chunks[1].parts) = 2
    /\ chunks[2].kind = "Chunk"
    /\ Len(result.value) = 3

\* C6: after construction every chunk_index in [0, N) has one entry, a Chunk
\* or a SuperChunk; get_chunk returns the ordinary Chunk whatever the
\* block_index, the constituent at block_index for a SuperChunk, fails for a
\* SuperChunk without a block_index, and fails for an index outside [0, N).
C6_GetChunkResolves ==
    pc = "ready" =>
        /\ Len(chunks) = Len(proto.function_chunks)
        /\ \A i \in 1..Len(chunks) :
                /\ chunks[i].kind \in {"Chunk", "SuperChunk"}
                /\ (chunks[i].kind = "SuperChunk") = proto.function_chunks[i].fake
        /\ result.op = "get_chunk" =>
            LET ci == result.chunk_index
                bi == result.block_index
                failed == result.kind = "raise" /\ result.value = "ChunkMissingError"
            IN  IF ci \notin 0..(Len(proto.function_chunks) - 1)
                THEN failed
                ELSE LET rec == proto.function_chunks[ci + 1]
                     IN  /\ ~rec.fake =>
                                /\ result.kind = "return"
                                /\ result.value = MkChunk(ci, NoBlock, rec.parts[1])
                         /\ (rec.fake /\ bi = NoBlock) => failed
                         /\ (rec.fake /\ bi \in 0..(Len(rec.parts) - 1)) =>
                                /\ result.kind = "return"
                                /\ result.value = MkChunk(ci, bi, rec.parts[bi + 1])

\* the second constituent of a SuperChunk is asked for and returned
C6_Witness ==
    /\ pc = "ready"
    /\ result.op = "get_chunk"
    /\ result.chunk_index \in 0..(Len(chunks) - 1)
    /\ chunks[result.chunk_index + 1].kind = "SuperChunk"
    /\ result.block_index = 1
    /\ result.kind = "return"

\* ------------------------------------------------------------- call graph
\* C7: every node of the call graph is an address, and every call recorded
\* for a constituent of a SuperChunk is an edge from that constituent's own
\* start address.
C7_SuperChunkEdgesFromStarts ==
    (pc = "ready" /\ call_graph.computed) =>
        /\ \A n \in call_graph.nodes : n.kind = "address"
        /\ \A i \in 1..Len(chunks) :
                chunks[i].kind = "SuperChunk" =>
                    \A c \in SuperChunkStarts(chunks[i]) : \A t \in c.calls :
                        <<AddrNode(c.start), AddrNode(t)>> \in call_graph.edges

OnlyOrdinary == \A i \in 1..Len(chunks) : chunks[i].kind = "Chunk"

ChunkStarts == {chunks[i].parts[1].start : i \in 1..Len(chunks)}

CallTargets == UNION {chunks[i].parts[1].calls : i \in 1..Len(chunks)}

\* the chunks (by position) that call z
Callers(z) == {i \in 1..Len(chunks) : z \in chunks[i].parts[1].calls}

InDegree(n) == Cardinality({e \in call_graph.edges : e[2] = n})

OutDegree(n) == Cardinality({e \in call_graph.edges : e[1] = n})

\* nodes and edges of the call graph of a program of ordinary chunks
OrdinaryGraphShape ==
    /\ call_graph.nodes = {AddrNode(a) : a \in ChunkStarts \cup CallTargets}
    /\ call_graph.edges =
            UNION {{<<AddrNode(chunks[i].parts[1].start), AddrNode(t)>> :
                        t \in chunks[i].parts[1].calls} : i \in 1..Len(chunks)}

HeadAt(address) ==
    \E i \in 1..Len(chunks) :
        /\ in_chunk(chunks[i], address)
        /\ \E b \in 1..Len(chunks[i].parts) : address \in chunks[i].parts[b].heads

\* C9: get_instruction(address) returns an instruction exactly when some
\* chunk of the chunk index contains the address and has an instruction
\* head at it; otherwise it fails with the not-found error.
C9_InstructionIffHead ==
    (pc = "ready" /\ result.op = "get_instruction") =>
        IF HeadAt(result.address)
        THEN /\ result.kind = "return"
             /\ result.value.address = result.address
             /\ result.address \in result.value.chunk.heads
        ELSE result.kind = "raise" /\ result.value = "IndexError"

\* the first chunk contains the address without a head there, the second
\* one has the head, and its instruction is returned
C9_Witness ==
    /\ pc = "ready"
    /\ result.op = "get_instruction"
    /\ Len(chunks) = 2
    /\ in_chunk(chunks[1], result.address)
    /\ chunk_get_instruction(chunks[1], result.address).kind = "raise"
    /\ result.kind = "return"
    /\ result.value.chunk.proto_index = 1

\* ---------------------------------------------------- reverse chunk index
\* C10: once computed, the reverse chunk index is not changed by any query,
\* failing ones included: same keys, same function lists.
C10_IndexUnchangedByQueries ==
    [][func_chunk_index.computed => func_chunk_index' = func_chunk_index]_vars

====
